---- MODULE Spec2Model ----
(***************************************************************************)
(* Model of the LASCI second-order optimizer of my_pyscf/mcscf/lasci.py:   *)
(* the unitary-group-generator object (free-index mask, pack, unpack),     *)
(* the get_gx index set of the Hessian operator, and the macro-iteration   *)
(* driver `kernel`.                                                         *)
(*                                                                         *)
(* Orbitals are numbered 0..nmo-1 as in the source.  A boolean nmo x nmo   *)
(* mask is the set of the pairs <<row, col>> at which it is True.  numpy   *)
(* boolean indexing reads and writes the True positions in row-major      *)
(* order; RowMajor below is that order.                                    *)
(*                                                                         *)
(* Numbers are integers.  A determinant-space CI vector of subspace f is   *)
(* a sequence of length ndet_sub[f], written in the orthonormal basis of   *)
(* the determinant space whose first ncsf members are the configuration    *)
(* state functions of the transformer at hand.                             *)
(***************************************************************************)
EXTENDS Integers, Sequences, FiniteSets, TLC

(* ------------------------------ bounds -------------------------------- *)
MaxNmo == 3        \* orbitals in all (core + active + external)
MaxCiDim == 4      \* determinant-space dimensions summed over subspaces and roots
MaxVal == 1        \* magnitude of a vector or matrix entry
MaxFrozen == 1     \* length of the frozen list
MaxMacro == 2      \* las.max_cycle_macro
MaxNorm == 1       \* gradient norms, in units of conv_tol_grad
MaxDet == 2        \* determinants of a state of get_wfn_response
MaxDiag == 4       \* magnitude of an entry of Hdiag, in units of 5e-9

\* las.conv_tol_grad = 1e-4, the unit in which the norms are counted
ConvTolGrad == 1

\* las.max_cycle_micro
MaxCycleMicro == 5

\* las.ah_level_shift = 1e-8 and the floor 1e-8 of get_prec, in units of 5e-9
AhLevelShift == 2
PrecFloor == 2

Irreps == {0, 1}   \* irrep ids carried by mo_coeff.orbsym

VARIABLES
  ncore,         \* las.ncore
  ncas_sub,      \* las.ncas_sub, a sequence
  nmo,           \* mo_coeff.shape[-1]
  frozen,        \* las.frozen: [is_none |-> TRUE] or a list of orbitals
  symm,          \* TRUE iff las.get_ugg is LASCISymm_UnitaryGroupGenerators
  orbsym,        \* mo_coeff.orbsym: irrep id of every orbital
  nroots,        \* las.nroots
  ndet_sub,      \* dimension of the determinant space of every subspace
  ncsf_sub,      \* transformer.ncsf of every subspace and root
  ugg,           \* "none" before get_ugg has been called, then "built"
  uniq_orb_idx,  \* ugg.uniq_orb_idx
  symm_forbid,   \* ugg.symm_forbid
  op,            \* the last operation carried out on the ugg object
  kappa_in,      \* argument kappa of the last pack
  ci_in,         \* argument ci_sub of the last pack
  x_out,         \* the flat vector returned by the last pack
  x_in,          \* argument x of the last unpack
  kappa_out,     \* kappa returned by the last unpack
  ci_out,        \* ci_sub returned by the last unpack
  err,           \* "none", or the exception that ended the last operation
  gx_idx,        \* index mask of the last get_gx
  norm_gorb,     \* kernel: norm of the orbital part of g_vec
  norm_gci,      \* kernel: norm of the CI part of g_vec
  norm_gx,       \* kernel: norm of gx
  pc,            \* kernel: position, "idle" when kernel is not running
  it,            \* kernel: loop variable it, -1 while unbound
  max_cycle_macro, \* las.max_cycle_macro
  init_from,     \* kernel: "ci0", "casdm0_fr" or "none", what the caller gave
  veff_def,      \* kernel: veff is bound
  fr_def,        \* kernel: casdm1s_fr is bound
  e_cas_def,     \* kernel: e_cas is bound
  converged,     \* kernel: converged
  cg_info,       \* kernel: info_int of the last sparse_linalg.cg
  n_ci,          \* number of ci_cycle calls so far
  n_step,        \* number of update_mo_ci_eri calls so far
  n_canon,       \* number of las.canonicalize calls so far
  kerr,          \* kernel: "none" or the exception raised
  kerr_at,       \* kernel: position at which it was raised
  ret,           \* kernel: the returned tuple, <<>> before the return
  trace,         \* kernel: the operations carried out so far, with their iteration
  loc,           \* kernel: H_op, g_vec, gx, prec_op and x0 of the loop body
  cg_call,       \* kernel: the arguments of the last sparse_linalg.cg
  pt,            \* kernel: the point each of mo_coeff, ci1, h2eff_sub, veff and the densities belongs to
  hop,           \* a LASCI_HessianOperator and the last call made on it
  obj,           \* the result of constructing LASCINoSymm or LASCISymm, and the last access to wfnsym
  wfn,           \* the last call of Gradients.get_wfn_response
  can            \* the last call of canonicalize

lasvars == <<ncore, ncas_sub, nmo, frozen, symm, orbsym, nroots, ndet_sub, ncsf_sub>>
uggvars == <<ugg, uniq_orb_idx, symm_forbid>>
opvars  == <<op, kappa_in, ci_in, x_out, x_in, kappa_out, ci_out, err, gx_idx>>
normvars == <<norm_gorb, norm_gci, norm_gx>>
kvars   == <<pc, it, max_cycle_macro, init_from, veff_def, fr_def, e_cas_def, converged,
             cg_info, n_ci, n_step, n_canon, kerr, kerr_at, ret, trace, loc, cg_call, pt>>
hvars   == <<hop>>
ovars   == <<obj, wfn, can>>
vars    == <<lasvars, uggvars, opvars, normvars, kvars, hvars, ovars>>

(* ----------------------------- helpers -------------------------------- *)
RECURSIVE SumSeq(_)
SumSeq(s) == IF s = <<>> THEN 0 ELSE Head(s) + SumSeq(Tail(s))

RECURSIVE Flatten(_)
Flatten(ss) == IF ss = <<>> THEN <<>> ELSE Head(ss) \o Flatten(Tail(ss))

Zeros(n) == [i \in 1..n |-> 0]

Orbs(n) == 0..(n - 1)

Pairs(n) == Orbs(n) \X Orbs(n)

\* the python slice [r0:r1, c0:c1] of a matrix
Block(r0, r1, c0, c1) == (r0..(r1 - 1)) \X (c0..(c1 - 1))

\* row-major (C order) precedence of matrix positions
RowLess(a, b) == a[1] < b[1] \/ (a[1] = b[1] /\ a[2] < b[2])

\* 1-based position of pq among the True entries of mask, in row-major order
RowMajor(mask, pq) == Cardinality({r \in mask : RowLess(r, pq)}) + 1

ZeroMat(n) == [pq \in Pairs(n) |-> 0]

\* ^ of two irrep ids
RECURSIVE Xor(_, _)
Xor(a, b) ==
  IF a = 0 /\ b = 0 THEN 0
  ELSE (((a % 2) + (b % 2)) % 2) + (2 * Xor(a \div 2, b \div 2))

NoFrozen == [is_none |-> TRUE, orbs |-> {}]

\* the locals of the loop body of kernel before the first iteration
NoLocals == [H_op |-> -1, g_vec |-> -1, gx |-> -1, prec_op |-> -1, x0 |-> <<>>]

\* the CI vectors a quantity was computed from: ci0, the casdm0_fr the
\* caller gave in their place, the result of ci_cycle in iteration k, or the
\* result of update_mo_ci_eri in iteration k
CiTag(by, k) == [by |-> by, it |-> k]

NoTag == CiTag("none", -1)

\* a veff: how it was obtained, the orbitals (counted by the rotations
\* applied to them) and CI vectors of its densities and, for an incremental
\* update, the veff it started from and the densities it subtracted
Veff(how, mo, dens, base, dfrom) ==
  [how |-> how, mo |-> mo, dens |-> dens, base |-> base, dfrom |-> dfrom]

NoVeff == Veff("none", -1, NoTag, NoTag, NoTag)

NoPoint ==
  [df |-> FALSE, debug |-> FALSE, mo |-> 0, ci |-> NoTag, h2eff |-> 0,
   veff |-> NoVeff, veff_new |-> NoVeff, fr |-> NoTag, sub |-> NoTag,
   ci_in |-> <<>>, hop_in |-> <<>>, wrap |-> <<>>]

\* no LASCI_HessianOperator has been built
NoHop == [op |-> "none"]

\* no object has been constructed, and neither get_wfn_response nor
\* canonicalize has been called; the three do not share state, and a
\* behaviour exercises one of them
ObjectsIdle ==
  /\ obj = [op |-> "none"]
  /\ wfn = [op |-> "none"]
  /\ can = [op |-> "none"]

(* ---------------------- LASCI_UnitaryGroupGenerators ------------------ *)
nsub == Len(ncas_sub)
ncas == SumSeq(ncas_sub)
nocc == ncore + ncas

\* np.cumsum ([0] + las.ncas_sub.tolist ()) + las.ncore, 1-based
sub_slice == [i \in 1..(nsub + 1) |-> ncore + SumSeq(SubSeq(ncas_sub, 1, i - 1))]

\* the partition block of orbital o: 0 for core, f for subspace f, nsub + 1
\* for external
BlockOf(o) ==
  IF o < ncore THEN 0
  ELSE IF o >= nocc THEN nsub + 1
  ELSE CHOOSE f \in 1..nsub : sub_slice[f] <= o /\ o < sub_slice[f + 1]

\* _init_orb of the base class
init_orb_mut ==
  LET extcore == Block(sub_slice[nsub + 1], nmo, 0, sub_slice[1])
      subsub  == UNION { Block(sub_slice[ix[1]], sub_slice[ix[1] + 1],
                               sub_slice[ix[2]], sub_slice[ix[2] + 1]) :
                         ix \in {jx \in (1..nsub) \X (1..nsub) : jx[2] <= jx[1]} }
      idx     == extcore \cup subsub
  IN  IF frozen.is_none THEN idx
      ELSE {pq \in idx : pq[1] \notin frozen.orbs /\ pq[2] \notin frozen.orbs}

init_orb ==
  LET extcore == Block(sub_slice[nsub + 1], nmo, 0, sub_slice[1])
      subsub  == UNION { Block(sub_slice[ix[1]], sub_slice[ix[1] + 1],
                               sub_slice[ix[2]], sub_slice[ix[2] + 1]) :
                         ix \in {jx \in (1..nsub) \X (1..nsub) : jx[2] < jx[1]} }
      idx     == extcore \cup subsub
  IN  IF frozen.is_none THEN idx
      ELSE {pq \in idx : pq[1] \notin frozen.orbs /\ pq[2] \notin frozen.orbs}

\* (orbsym[:,None] ^ orbsym[None,:]).astype (np.bool_)
symm_forbid_of_mut == {pq \in Pairs(nmo) : Xor(orbsym[pq[1]], orbsym[pq[2]]) = 0}

symm_forbid_of == {pq \in Pairs(nmo) : Xor(orbsym[pq[1]], orbsym[pq[2]]) # 0}

\* _init_orb of the symmetry subclass
init_orb_symm == init_orb \ symm_forbid_of

nvar_orb == Cardinality(uniq_orb_idx)

ncsf_total == SumSeq(Flatten(ncsf_sub))

nvar_tot == nvar_orb + ncsf_total

(* ------------------------------ numpy --------------------------------- *)
Min(a, b) == IF a < b THEN a ELSE b

\* s[a:b] for 0 <= a, 0 <= b
PySlice(s, a, b) == SubSeq(s, a + 1, Min(b, Len(s)))

\* m[mask]: the entries of m at the True positions of mask, row-major
Take(m, mask) ==
  [k \in 1..Cardinality(mask) |-> m[CHOOSE pq \in mask : RowMajor(mask, pq) = k]]

\* does m[mask] = v succeed?  v must have one value per True position, or be
\* a single value, which numpy broadcasts
PutOk(mask, v) == Len(v) = Cardinality(mask) \/ Len(v) = 1

\* zeros ((n, n)) after m[mask] = v
Put_mut(n, mask, v) ==
  [pq \in Pairs(n) |->
     IF pq \in mask
     THEN (IF Len(v) = Cardinality(mask)
           THEN v[Cardinality(mask) + 1 - RowMajor(mask, pq)] ELSE v[1])
     ELSE 0]

Put(n, mask, v) ==
  [pq \in Pairs(n) |->
     IF pq \in mask
     THEN (IF Len(v) = Cardinality(mask) THEN v[RowMajor(mask, pq)] ELSE v[1])
     ELSE 0]

\* m - m.T
MinusTranspose_mut(n, m) == [pq \in Pairs(n) |-> m[pq]]

MinusTranspose(n, m) == [pq \in Pairs(n) |-> m[pq] - m[<<pq[2], pq[1]>>]]

(* ----------------------------- CSFTransformer ------------------------- *)
\* transformer.vec_det2csf (ci, normalize=False): the coordinates of the
\* projection of ci on the CSFs
vec_det2csf(ci, n_csf) == SubSeq(ci, 1, n_csf)

\* transformer.vec_csf2det (y, normalize=False): the determinant-space vector
\* with CSF coordinates y
vec_csf2det(y, n_det) == y \o Zeros(n_det - Len(y))

\* vec_csf2det accepts a vector of ncsf coordinates and no other
csf2det_ok(y, n_csf) == Len(y) = n_csf

(* ------------------------------ pack / unpack ------------------------- *)
\* the (subspace, root) pairs in the order of the nested loops of pack and
\* unpack: for trans_frag in ci_transformers, for transformer in trans_frag
LoopOrder_mut ==
  Flatten([r \in 1..nroots |-> [f \in 1..nsub |-> <<f, r>>]])

LoopOrder ==
  Flatten([f \in 1..nsub |-> [r \in 1..nroots |-> <<f, r>>]])

\* the loop of pack: x = np.append (x, transformer.vec_det2csf (ci))
RECURSIVE pack_ci(_, _, _)
pack_ci(x, ci_sub, todo) ==
  IF todo = <<>> THEN x
  ELSE LET f == Head(todo)[1]
           r == Head(todo)[2]
       IN  pack_ci(x \o vec_det2csf(ci_sub[f][r], ncsf_sub[f][r]), ci_sub, Tail(todo))

\* pack (kappa, ci_sub), before its assertion
pack(kappa, ci_sub) == pack_ci(Take(kappa, uniq_orb_idx), ci_sub, LoopOrder)

\* assert (x.shape[0] == self.nvar_tot)
pack_err(x) == IF Len(x) = nvar_tot THEN "none" ELSE "AssertionError"

\* kappa of unpack (x)
unpack_kappa(x) ==
  MinusTranspose(nmo, Put(nmo, uniq_orb_idx, PySlice(x, 0, nvar_orb)))

\* the loop of unpack: the slices y[:ncsf] handed to vec_csf2det, in loop
\* order, y = y[ncsf:] after each
RECURSIVE unpack_slices_mut(_, _)
unpack_slices_mut(y, todo) ==
  IF todo = <<>> THEN <<>>
  ELSE LET n == ncsf_sub[Head(todo)[1]][Head(todo)[2]]
       IN  <<PySlice(y, 0, n)>> \o unpack_slices_mut(PySlice(y, n + 1, Len(y)), Tail(todo))

RECURSIVE unpack_slices(_, _)
unpack_slices(y, todo) ==
  IF todo = <<>> THEN <<>>
  ELSE LET n == ncsf_sub[Head(todo)[1]][Head(todo)[2]]
       IN  <<PySlice(y, 0, n)>> \o unpack_slices(PySlice(y, n, Len(y)), Tail(todo))

slices_of(x) == unpack_slices(PySlice(x, nvar_orb, Len(x)), LoopOrder)

\* position of (f, r) in the loop order
LoopPos(f, r) ==
  LET lo == LoopOrder
  IN  CHOOSE k \in 1..Len(lo) : lo[k] = <<f, r>>

\* ci_sub of unpack (x)
unpack_ci(x) ==
  LET s == slices_of(x)
  IN  [f \in 1..nsub |-> [r \in 1..nroots |->
         vec_csf2det(s[LoopPos(f, r)], ndet_sub[f])]]

unpack_err(x) ==
  IF ~PutOk(uniq_orb_idx, PySlice(x, 0, nvar_orb)) THEN "ValueError"
  ELSE LET s == slices_of(x)
           lo == LoopOrder
       IN  IF \E k \in 1..Len(lo) :
                ~csf2det_ok(s[k], ncsf_sub[lo[k][1]][lo[k][2]])
           THEN "TransformError"
           ELSE "none"

(* ------------------------- LASCI_HessianOperator ---------------------- *)
\* idx of get_gx
get_gx_idx_mut ==
  LET idx == Block(ncore, nocc, 0, ncore) \cup Block(nocc, nmo, 0, nocc)
  IN  IF symm THEN idx \ symm_forbid ELSE idx

get_gx_idx ==
  LET idx == Block(ncore, nocc, 0, ncore) \cup Block(nocc, nmo, ncore, nocc)
  IN  IF symm THEN idx \ symm_forbid ELSE idx

(* ------------------------------ norms --------------------------------- *)
SumSq(v) == SumSeq([i \in 1..Len(v) |-> v[i] * v[i]])

\* linalg.norm (v), rounded down to an integer
Norm(v) == CHOOSE n \in 0..SumSq(v) : n * n <= SumSq(v) /\ (n + 1) * (n + 1) > SumSq(v)

(* ------------------------------ inputs -------------------------------- *)
NZ == 1..MaxVal

\* the zero vector and the positive multiples of the unit vectors of length
\* n; pack and unpack are linear, so that these inputs determine them
UnitVecs(n) ==
  {Zeros(n)} \cup {[i \in 1..n |-> IF i = j THEN v ELSE 0] : j \in 1..n, v \in NZ}

\* the skew-symmetric matrix with v at (p, q) and -v at (q, p)
SkewUnit(p, q, v) ==
  [pq \in Pairs(nmo) |-> IF pq = <<p, q>> THEN v ELSE IF pq = <<q, p>> THEN 0 - v ELSE 0]

ZeroCi == [f \in 1..nsub |-> [r \in 1..nroots |-> Zeros(ndet_sub[f])]]

CiUnit(f0, r0, k0, v) ==
  [f \in 1..nsub |-> [r \in 1..nroots |->
     [k \in 1..ndet_sub[f] |-> IF <<f, r, k>> = <<f0, r0, k0>> THEN v ELSE 0]]]

PackInputs ==
  {[kappa |-> ZeroMat(nmo), ci |-> ZeroCi]}
  \cup {[kappa |-> SkewUnit(pq[1], pq[2], v), ci |-> ZeroCi] :
          pq \in {rs \in Pairs(nmo) : rs[1] > rs[2]}, v \in NZ}
  \cup UNION {{[kappa |-> ZeroMat(nmo), ci |-> CiUnit(fr[1], fr[2], k, v)] :
                 k \in 1..ndet_sub[fr[1]], v \in NZ} :
              fr \in (1..nsub) \X (1..nroots)}

\* vectors of length nvar_tot, and the zero vectors one entry shorter and one
\* entry longer
UnpackInputs ==
  UnitVecs(nvar_tot)
  \cup {Zeros(n) : n \in {m \in {nvar_tot - 1, nvar_tot + 1} : m >= 0}}

(* --------------------------- configurations --------------------------- *)
Partitions ==
  {c \in [nc : 0..MaxNmo,
          cas : UNION {[1..k -> 1..MaxNmo] : k \in 1..MaxNmo},
          nx : 0..MaxNmo] :
     c.nc + SumSeq(c.cas) + c.nx <= MaxNmo}

FrozenLists(n) ==
  {NoFrozen} \cup
  {[is_none |-> FALSE, orbs |-> S] :
     S \in {T \in SUBSET Orbs(n) : Cardinality(T) <= MaxFrozen}}

CiDims(ns) ==
  {d \in [nr : 1..MaxCiDim, det : [1..ns -> 1..MaxCiDim]] :
     d.nr * SumSeq(d.det) <= MaxCiDim}

CsfCounts(ns, d) ==
  {c \in [1..ns -> UNION {[1..d.nr -> 0..d.det[f]] : f \in 1..ns}] :
     \A f \in 1..ns : \A r \in 1..d.nr : c[f][r] <= d.det[f]}

\* a las object with frozen orbitals and point-group symmetry at will, one
\* root and one CSF per subspace
InitOrbital ==
  /\ frozen \in FrozenLists(nmo)
  /\ symm \in BOOLEAN
  /\ orbsym \in (IF symm THEN [Orbs(nmo) -> Irreps] ELSE {[o \in Orbs(nmo) |-> 0]})
  /\ nroots = 1
  /\ ndet_sub = [f \in 1..Len(ncas_sub) |-> 1]
  /\ ncsf_sub = [f \in 1..Len(ncas_sub) |-> <<1>>]

\* a las object without frozen orbitals or symmetry, CI dimensions at will
InitCi ==
  /\ frozen = NoFrozen
  /\ symm = FALSE
  /\ orbsym = [o \in Orbs(nmo) |-> 0]
  /\ \E d \in CiDims(Len(ncas_sub)) :
       /\ nroots = d.nr
       /\ ndet_sub = d.det
       /\ ncsf_sub \in CsfCounts(Len(ncas_sub), d)

\* no kernel call is under way
KernelIdle ==
  /\ pc = "idle"
  /\ it = -1
  /\ max_cycle_macro = 0
  /\ init_from = "none"
  /\ veff_def = FALSE
  /\ fr_def = FALSE
  /\ e_cas_def = FALSE
  /\ converged = FALSE
  /\ cg_info = 0
  /\ n_ci = 0
  /\ n_step = 0
  /\ n_canon = 0
  /\ kerr = "none"
  /\ kerr_at = "none"
  /\ ret = <<>>
  /\ trace = <<>>
  /\ loc = NoLocals
  /\ cg_call = <<>>
  /\ pt = NoPoint

Init ==
  /\ \E c \in Partitions :
       /\ ncore = c.nc
       /\ ncas_sub = c.cas
       /\ nmo = c.nc + SumSeq(c.cas) + c.nx
  /\ (InitOrbital \/ InitCi)
  /\ ugg = "none"
  /\ uniq_orb_idx = {}
  /\ symm_forbid = {}
  /\ op = "none"
  /\ kappa_in = ZeroMat(nmo)
  /\ ci_in = <<>>
  /\ x_out = <<>>
  /\ x_in = <<>>
  /\ kappa_out = ZeroMat(nmo)
  /\ ci_out = <<>>
  /\ err = "none"
  /\ gx_idx = {}
  /\ norm_gorb = 0
  /\ norm_gci = 0
  /\ norm_gx = 0
  /\ KernelIdle
  /\ hop = NoHop
  /\ ObjectsIdle

(* ------------------------------ actions ------------------------------- *)
\* las.get_ugg (las, mo_coeff, ci) of LASCINoSymm
UGG_new ==
  /\ ugg = "none"
  /\ ~symm
  /\ ugg' = "built"
  /\ uniq_orb_idx' = init_orb
  /\ symm_forbid' = {}
  /\ UNCHANGED <<ovars, hvars, lasvars, opvars, normvars, kvars>>

\* las.get_ugg (las, mo_coeff, ci) of LASCISymm
UGGSymm_new ==
  /\ ugg = "none"
  /\ symm
  /\ ugg' = "built"
  /\ uniq_orb_idx' = init_orb_symm
  /\ symm_forbid' = symm_forbid_of
  /\ UNCHANGED <<ovars, hvars, lasvars, opvars, normvars, kvars>>

DoPack(kappa, ci_sub, tag) ==
  LET x == pack(kappa, ci_sub)
      e == pack_err(x)
  IN  /\ op' = tag
      /\ kappa_in' = kappa
      /\ ci_in' = ci_sub
      /\ err' = e
      /\ x_out' = IF e = "none" THEN x ELSE <<>>

DoUnpack(x, tag) ==
  LET e == unpack_err(x)
  IN  /\ op' = tag
      /\ x_in' = x
      /\ err' = e
      /\ kappa_out' = IF e = "none" THEN unpack_kappa(x) ELSE ZeroMat(nmo)
      /\ ci_out' = IF e = "none" THEN unpack_ci(x) ELSE <<>>

\* ugg.pack (kappa, ci_sub)
Pack ==
  /\ ugg = "built"
  /\ op = "none"
  /\ \E a \in PackInputs : DoPack(a.kappa, a.ci, "pack")
  /\ UNCHANGED <<ovars, hvars, lasvars, uggvars, normvars, kvars, x_in, kappa_out, ci_out, gx_idx>>

\* ugg.unpack (x)
Unpack ==
  /\ ugg = "built"
  /\ op = "none"
  /\ \E x \in UnpackInputs : DoUnpack(x, "unpack")
  /\ UNCHANGED <<ovars, hvars, lasvars, uggvars, normvars, kvars, x_out, kappa_in, ci_in, gx_idx>>

\* ugg.unpack (ugg.pack (kappa, ci_sub))
UnpackPacked ==
  /\ op = "pack"
  /\ err = "none"
  /\ DoUnpack(x_out, "unpack_pack")
  /\ UNCHANGED <<ovars, hvars, lasvars, uggvars, normvars, kvars, x_out, kappa_in, ci_in, gx_idx>>

\* H_op.get_gx ()
GetGx ==
  /\ ugg = "built"
  /\ op = "none"
  /\ op' = "get_gx"
  /\ gx_idx' = get_gx_idx
  /\ UNCHANGED <<ovars, hvars, lasvars, uggvars, normvars, kvars, kappa_in, ci_in, x_out, x_in, kappa_out, ci_out, err>>

\* kernel: norm_gorb and norm_gci of g_vec = H_op.get_grad (), which is the
\* result of ugg.pack
GradNorms ==
  /\ op = "pack"
  /\ err = "none"
  /\ op' = "norms"
  /\ norm_gorb' = IF nvar_orb # 0 THEN Norm(PySlice(x_out, 0, nvar_orb)) ELSE 0
  /\ norm_gci' = IF ncsf_total # 0 THEN Norm(PySlice(x_out, nvar_orb, Len(x_out))) ELSE 0
  /\ UNCHANGED <<ovars, hvars, lasvars, uggvars, kvars, norm_gx, kappa_in, ci_in, x_out, x_in, kappa_out, ci_out, err, gx_idx>>

Next ==
  \/ UGG_new
  \/ UGGSymm_new
  \/ Pack
  \/ Unpack
  \/ UnpackPacked
  \/ GetGx
  \/ GradNorms

Spec == Init /\ [][Next]_vars

(* ------------------------------- kernel ------------------------------- *)
\* the values linalg.norm can take for the gradient and for gx, counted in
\* units of conv_tol_grad
GNorms == 0..MaxNorm

GxNorms == {0} \cup {10 * n : n \in 1..MaxNorm} \cup {(10 * n) + 1 : n \in 1..MaxNorm}

\* the convergence test of the macro iteration; (a + b) < c/10 is written
\* 10*(a + b) < c
ConvTest_mut(gorb, gci, gx, tol) ==
  (gorb <= tol /\ gci <= tol) \/ (10 * (gorb + gci) < gx)

ConvTest(gorb, gci, gx, tol) ==
  (gorb < tol /\ gci < tol) \/ (10 * (gorb + gci) < gx)

\* the calls between the veff of the new CI vectors and the norms, in the
\* order of the code
GradOps_mut == <<"get_hop", "get_prec", "get_grad", "get_gx">>

GradOps == <<"get_hop", "get_grad", "get_gx", "get_prec">>

\* ten times my_tol = max (conv_tol_grad, norm_gx/10)
MyTol10(tol, gx) == IF 10 * tol > gx THEN 10 * tol ELSE gx

\* the arguments of sparse_linalg.cg (H_op, -g_vec, x0=x0, atol=my_tol,
\* maxiter=las.max_cycle_micro, callback=my_callback, M=prec_op)
CgArgs_mut(l, tol, gx) ==
  [A |-> l.H_op, b |-> [neg |-> TRUE, g |-> l.g_vec], x0 |-> <<>>,
   atol10 |-> MyTol10(tol, gx), maxiter |-> MaxCycleMicro, M |-> l.prec_op]

CgArgs(l, tol, gx) ==
  [A |-> l.H_op, b |-> [neg |-> TRUE, g |-> l.g_vec], x0 |-> l.x0,
   atol10 |-> MyTol10(tol, gx), maxiter |-> MaxCycleMicro, M |-> l.prec_op]

\* info_int of sparse_linalg.cg: 0 when the tolerance was met, positive when
\* maxiter was reached, negative on a breakdown
CgInfos == {0 - 1, 0, 1}

\* is x applied after a cg that returned info?  kernel never reads info_int
StepApplied_mut(info) == info = 0

StepApplied(info) == TRUE

\* kernel up to the loop: h2eff_sub = las.get_h2eff (mo_coeff), veff and the
\* densities from ci0 if it is given, else from casdm0_fr if it is given;
\* ci1 = ci0
InitialPoint(p, from) ==
  LET src == IF from = "ci0" THEN CiTag("ci0", -1)
             ELSE IF from = "casdm0_fr" THEN CiTag("casdm0_fr", -1) ELSE NoTag
  IN  [p EXCEPT !.h2eff = p.mo,
                !.veff = IF from = "none" THEN NoVeff ELSE Veff("full", p.mo, src, NoTag, NoTag),
                !.fr = src,
                !.sub = src,
                !.ci = IF from = "ci0" THEN src ELSE NoTag]

\* e_cas, ci1 = ci_cycle (las, mo_coeff, ci1, veff, h2eff_sub, casdm1s_fr, log)
CiSolved(p, k) ==
  [p EXCEPT !.ci = CiTag("ci_cycle", k),
            !.ci_in = [guess |-> p.ci, mo |-> p.mo, h2eff |-> p.h2eff,
                       veff |-> p.veff, fr |-> p.fr]]

\* the veff of the new CI vectors: veff_new is the full recomputation, made
\* without density fitting or for the debug log; with density fitting veff is
\* the previous veff plus fast_veffa of casdm1s_new - casdm1s_sub, which is
\* the veff of the new densities when casdm1s_sub holds the densities of the
\* previous veff; casdm1s_sub = casdm1s_new
VeffAfterCi_mut(p) ==
  LET full == Veff("full", p.mo, p.ci, NoTag, NoTag)
      incr == Veff("incr", p.veff.mo,
                   IF p.sub = p.veff.dens THEN p.ci ELSE CiTag("mixed", -1),
                   p.veff.dens, p.sub)
  IN  [p EXCEPT !.veff_new = IF ~p.df \/ p.debug THEN full ELSE p.veff_new,
                !.veff = IF ~p.df \/ p.debug THEN full ELSE incr,
                !.sub = p.ci]

VeffAfterCi(p) ==
  LET full == Veff("full", p.mo, p.ci, NoTag, NoTag)
      incr == Veff("incr", p.veff.mo,
                   IF p.sub = p.veff.dens THEN p.ci ELSE CiTag("mixed", -1),
                   p.veff.dens, p.sub)
  IN  [p EXCEPT !.veff_new = IF ~p.df \/ p.debug THEN full ELSE p.veff_new,
                !.veff = IF p.df THEN incr ELSE full,
                !.sub = p.ci]

\* mo_coeff, ci1, h2eff_sub = H_op.update_mo_ci_eri (x, h2eff_sub), the
\* densities of the new ci1 and the veff of the new mo_coeff and ci1
UpdatePoint_mut(p, k) ==
  LET new == CiTag("update", k)
  IN  [p EXCEPT !.mo = p.mo + 1, !.ci = new, !.h2eff = p.h2eff,
                !.fr = new, !.sub = new,
                !.veff = Veff("full", p.mo + 1, new, NoTag, NoTag)]

UpdatePoint(p, k) ==
  LET new == CiTag("update", k)
  IN  [p EXCEPT !.mo = p.mo + 1, !.ci = new, !.h2eff = p.mo + 1,
                !.fr = new, !.sub = new,
                !.veff = Veff("full", p.mo + 1, new, NoTag, NoTag)]

\* a las object without frozen orbitals or symmetry, one root per subspace,
\* with or without density fitting and debug output, and a call of kernel on
\* it
InitKernel ==
  /\ \E c \in Partitions :
       /\ ncore = c.nc
       /\ ncas_sub = c.cas
       /\ nmo = c.nc + SumSeq(c.cas) + c.nx
  /\ frozen = NoFrozen
  /\ symm = FALSE
  /\ orbsym = [o \in Orbs(nmo) |-> 0]
  /\ nroots = 1
  /\ ndet_sub = [f \in 1..Len(ncas_sub) |-> 1]
  /\ \E n \in 0..1 : ncsf_sub = [f \in 1..Len(ncas_sub) |-> <<n>>]
  /\ ugg = "none"
  /\ uniq_orb_idx = {}
  /\ symm_forbid = {}
  /\ op = "none"
  /\ kappa_in = ZeroMat(nmo)
  /\ ci_in = <<>>
  /\ x_out = <<>>
  /\ x_in = <<>>
  /\ kappa_out = ZeroMat(nmo)
  /\ ci_out = <<>>
  /\ err = "none"
  /\ gx_idx = {}
  /\ norm_gorb = 0
  /\ norm_gci = 0
  /\ norm_gx = 0
  /\ pc = "start"
  /\ it = -1
  /\ max_cycle_macro \in 0..MaxMacro
  /\ init_from \in {"ci0", "casdm0_fr", "none"}
  /\ veff_def = FALSE
  /\ fr_def = FALSE
  /\ e_cas_def = FALSE
  /\ converged = FALSE
  /\ cg_info = 0
  /\ n_ci = 0
  /\ n_step = 0
  /\ n_canon = 0
  /\ kerr = "none"
  /\ kerr_at = "none"
  /\ ret = <<>>
  /\ trace = <<>>
  /\ loc = NoLocals
  /\ cg_call = <<>>
  /\ \E df \in BOOLEAN : \E debug \in BOOLEAN :
       pt = [NoPoint EXCEPT !.df = df, !.debug = debug]
  /\ hop = NoHop
  /\ ObjectsIdle

Raise(what, where) ==
  /\ pc' = "error"
  /\ kerr' = what
  /\ kerr_at' = where

\* the operations names, carried out in iteration it, are added to the trace
Did(names) == trace' = trace \o [k \in 1..Len(names) |-> <<names[k], it>>]

\* kernel up to the loop: the integral transformation, the initial veff and
\* densities from ci0 or from casdm0_fr, ugg = None, converged = False
KStart ==
  /\ pc = "start"
  /\ pc' = "loop"
  /\ veff_def' = (init_from # "none")
  /\ fr_def' = (init_from # "none")
  /\ converged' = FALSE
  /\ pt' = InitialPoint(pt, init_from)
  /\ UNCHANGED <<ovars, hvars, lasvars, uggvars, opvars, normvars, it, max_cycle_macro, init_from,
                 e_cas_def, cg_info, n_ci, n_step, n_canon, kerr, kerr_at, ret,
                 trace, loc, cg_call>>

\* for it in range (las.max_cycle_macro)
KLoop ==
  /\ pc = "loop"
  /\ IF it + 1 < max_cycle_macro
     THEN it' = it + 1 /\ pc' = "ci_cycle"
     ELSE it' = it /\ pc' = "wrapup"
  /\ UNCHANGED <<ovars, hvars, lasvars, uggvars, opvars, normvars, max_cycle_macro, init_from, veff_def,
                 fr_def, e_cas_def, converged, cg_info, n_ci, n_step, n_canon, kerr,
                 kerr_at, ret, trace, loc, cg_call, pt>>

\* e_cas, ci1 = ci_cycle (...); if ugg is None: ugg = las.get_ugg (...)
KCiCycle ==
  /\ pc = "ci_cycle"
  /\ IF veff_def /\ fr_def
     THEN /\ pc' = "veff"
          /\ n_ci' = n_ci + 1
          /\ e_cas_def' = TRUE
          /\ ugg' = "built"
          /\ uniq_orb_idx' = IF ugg # "none" THEN uniq_orb_idx
                             ELSE IF symm THEN init_orb_symm ELSE init_orb
          /\ symm_forbid' = IF ugg # "none" THEN symm_forbid
                            ELSE IF symm THEN symm_forbid_of ELSE {}
          /\ Did(IF ugg = "none" THEN <<"ci_cycle", "get_ugg">> ELSE <<"ci_cycle">>)
          /\ pt' = CiSolved(pt, it)
          /\ UNCHANGED <<kerr, kerr_at>>
     ELSE /\ Raise("UnboundLocalError", "ci_cycle")
          /\ UNCHANGED <<n_ci, e_cas_def, uggvars, trace, pt>>
  /\ UNCHANGED <<ovars, hvars, lasvars, opvars, normvars, it, max_cycle_macro, init_from, veff_def,
                 fr_def, converged, cg_info, n_step, n_canon, ret, loc, cg_call>>

\* casdm1s_new and the veff of the new CI vectors
KVeff ==
  /\ pc = "veff"
  /\ pc' = "grad"
  /\ Did(<<"get_veff">>)
  /\ pt' = VeffAfterCi(pt)
  /\ UNCHANGED <<ovars, hvars, lasvars, uggvars, opvars, normvars, it, max_cycle_macro, init_from,
                 veff_def, fr_def, e_cas_def, converged, cg_info, n_ci, n_step, n_canon,
                 kerr, kerr_at, ret, loc, cg_call>>

\* H_op, g_vec, gx, prec_op, the norms of g_vec and gx, and
\* x0 = prec_op._matvec (-g_vec)
KGrad ==
  /\ pc = "grad"
  /\ pc' = "test"
  /\ gx_idx' = get_gx_idx
  /\ norm_gorb' \in (IF nvar_orb # 0 THEN GNorms ELSE {0})
  /\ norm_gci' \in (IF ncsf_total # 0 THEN GNorms ELSE {0})
  /\ norm_gx' \in (IF get_gx_idx # {} THEN GxNorms ELSE {0})
  /\ Did(GradOps)
  /\ loc' = [H_op |-> it, g_vec |-> it, gx |-> it, prec_op |-> it,
             x0 |-> [M |-> it, b |-> [neg |-> TRUE, g |-> it]]]
  /\ pt' = [pt EXCEPT !.hop_in = [mo |-> pt.mo, ci |-> pt.ci, h2eff |-> pt.h2eff, veff |-> pt.veff]]
  /\ UNCHANGED <<ovars, hvars, lasvars, uggvars, op, kappa_in, ci_in, x_out, x_in, kappa_out, ci_out, err,
                 it, max_cycle_macro, init_from, veff_def, fr_def, e_cas_def, converged,
                 cg_info, n_ci, n_step, n_canon, kerr, kerr_at, ret, cg_call>>

\* the convergence test: converged = True and break, or go on
KTest ==
  /\ pc = "test"
  /\ IF ConvTest(norm_gorb, norm_gci, norm_gx, ConvTolGrad)
     THEN converged' = TRUE /\ pc' = "wrapup"
     ELSE converged' = converged /\ pc' = "cg"
  /\ Did(<<"test">>)
  /\ UNCHANGED <<ovars, hvars, lasvars, uggvars, opvars, normvars, it, max_cycle_macro, init_from,
                 veff_def, fr_def, e_cas_def, cg_info, n_ci, n_step, n_canon, kerr,
                 kerr_at, ret, loc, cg_call, pt>>

\* H_op._init_df (); my_tol; x, info_int = sparse_linalg.cg (...)
KCG ==
  /\ pc = "cg"
  /\ pc' = "update"
  /\ cg_info' \in CgInfos
  /\ cg_call' = CgArgs(loc, ConvTolGrad, norm_gx)
  /\ Did(<<"init_df", "cg">>)
  /\ UNCHANGED <<ovars, hvars, lasvars, uggvars, opvars, normvars, it, max_cycle_macro, init_from,
                 veff_def, fr_def, e_cas_def, converged, n_ci, n_step, n_canon, kerr,
                 kerr_at, ret, loc, pt>>

\* mo_coeff, ci1, h2eff_sub = H_op.update_mo_ci_eri (x, h2eff_sub), the
\* densities and the veff of the new point
KUpdate ==
  /\ pc = "update"
  /\ pc' = "loop"
  /\ IF StepApplied(cg_info)
     THEN /\ n_step' = n_step + 1
          /\ Did(<<"update_mo_ci_eri", "get_veff">>)
          /\ pt' = UpdatePoint(pt, it)
     ELSE UNCHANGED <<n_step, trace, pt>>
  /\ UNCHANGED <<ovars, hvars, lasvars, uggvars, opvars, normvars, it, max_cycle_macro, init_from,
                 veff_def, fr_def, e_cas_def, converged, cg_info, n_ci, n_canon, kerr,
                 kerr_at, ret, loc, cg_call>>

\* e_tot, the spin-separated veff and the two log lines after the loop, which
\* read veff, casdm1s_fr, it and the norms
KWrapup ==
  /\ pc = "wrapup"
  /\ IF veff_def /\ fr_def /\ it # -1
     THEN /\ pc' = "canon"
          /\ pt' = [pt EXCEPT !.wrap = [fr |-> pt.fr, ci |-> pt.ci, mo |-> pt.mo,
                                        h2eff |-> pt.h2eff, veff |-> pt.veff]]
          /\ UNCHANGED <<kerr, kerr_at>>
     ELSE Raise("UnboundLocalError", "wrapup") /\ UNCHANGED pt
  /\ UNCHANGED <<ovars, hvars, lasvars, uggvars, opvars, normvars, it, max_cycle_macro, init_from,
                 veff_def, fr_def, e_cas_def, converged, cg_info, n_ci, n_step, n_canon,
                 ret, trace, loc, cg_call>>

\* las.canonicalize (mo_coeff, ci1, veff.sa, h2eff_sub)
KCanon ==
  /\ pc = "canon"
  /\ pc' = "return"
  /\ n_canon' = n_canon + 1
  /\ Did(<<"canonicalize">>)
  /\ UNCHANGED <<ovars, hvars, lasvars, uggvars, opvars, normvars, it, max_cycle_macro, init_from,
                 veff_def, fr_def, e_cas_def, converged, cg_info, n_ci, n_step, kerr,
                 kerr_at, ret, loc, cg_call, pt>>

\* return converged, e_tot, mo_energy, mo_coeff, e_cas, ci1, h2eff_sub, veff
KReturn ==
  /\ pc = "return"
  /\ pc' = "done"
  /\ ret' = [converged |-> converged, e_tot |-> TRUE, mo_coeff |-> TRUE,
             e_cas |-> e_cas_def, ci1 |-> TRUE, cycles |-> it + 1]
  /\ Did(<<"return">>)
  /\ UNCHANGED <<ovars, hvars, lasvars, uggvars, opvars, normvars, it, max_cycle_macro, init_from,
                 veff_def, fr_def, e_cas_def, converged, cg_info, n_ci, n_step, n_canon,
                 kerr, kerr_at, loc, cg_call, pt>>

NextKernel ==
  \/ KStart
  \/ KLoop
  \/ KCiCycle
  \/ KVeff
  \/ KGrad
  \/ KTest
  \/ KCG
  \/ KUpdate
  \/ KWrapup
  \/ KCanon
  \/ KReturn

SpecKernel == InitKernel /\ [][NextKernel]_vars

(* ------------------------ LASCI_HessianOperator ----------------------- *)
Dot(a, b) == SumSeq([i \in 1..Len(a) |-> a[i] * b[i]])

VAdd(a, b) == [i \in 1..Len(a) |-> a[i] + b[i]]

VSub(a, b) == [i \in 1..Len(a) |-> a[i] - b[i]]

Scale(k, a) == [i \in 1..Len(a) |-> k * a[i]]

\* the product of the n x n matrix m with the vector v
MatVec(m, v) == [i \in 1..Len(v) |-> SumSeq([j \in 1..Len(v) |-> m[<<i, j>>] * v[j]])]

\* the symmetric n x n matrices with a single 1 on the diagonal or a single
\* pair of 1 off the diagonal, and the zero matrix; the CI Hamiltonian enters
\* the operator linearly
SymUnits(n) ==
  {[ij \in (1..n) \X (1..n) |-> 0]} \cup
  {[ij \in (1..n) \X (1..n) |-> IF ij = <<a, b>> \/ ij = <<b, a>> THEN 1 ELSE 0] :
     a \in 1..n, b \in 1..n}

\* the unit vectors of length n that lie in the span of the first k
\* coordinates
UnitRefs(n, k) == {[i \in 1..n |-> IF i = j THEN 1 ELSE 0] : j \in 1..k}

\* the (subspace, root) blocks
Blocks == (1..nsub) \X (1..nroots)

ZeroSym(n) == [ij \in (1..n) \X (1..n) |-> 0]

\* one CI Hamiltonian per block: a symmetric unit for one block, zero for
\* the others
HamChoices ==
  UNION {{[f \in 1..nsub |-> [r \in 1..nroots |->
             IF <<f, r>> = fr THEN m ELSE ZeroSym(ndet_sub[f])]] :
            m \in SymUnits(ndet_sub[fr[1]])} : fr \in Blocks}

\* one unit-norm reference vector per block, in the span of the CSFs
RefChoices ==
  {c \in [1..nsub -> UNION {[1..nroots -> UNION {UnitRefs(ndet_sub[f], ncsf_sub[f][r]) :
                                                  r \in 1..nroots}] : f \in 1..nsub}] :
     \A f \in 1..nsub : \A r \in 1..nroots :
        c[f][r] \in UnitRefs(ndet_sub[f], ncsf_sub[f][r])}

\* Hci: the contraction of the Hamiltonian with c, plus h0 * c
Hci(m, h0, c) == VAdd(MatVec(m, c), Scale(h0, c))

\* Hci_all (h0fr, h1frs, h2, ci_sub) with the Hamiltonians ham
Hci_all(h0fr, ham, ci_sub) ==
  [f \in 1..nsub |-> [r \in 1..nroots |-> Hci(ham[f][r], h0fr[f][r], ci_sub[f][r])]]

ZeroH0 == [f \in 1..nsub |-> [r \in 1..nroots |-> 0]]

\* e0 and hci0 of __init__: hci0 = H c, e0 = hci0.c, hci0 = hci0 - c * e0
e0_of(ham, ci) ==
  [f \in 1..nsub |-> [r \in 1..nroots |-> Dot(Hci_all(ZeroH0, ham, ci)[f][r], ci[f][r])]]

hci0_of(ham, ci) ==
  [f \in 1..nsub |-> [r \in 1..nroots |->
     VSub(Hci_all(ZeroH0, ham, ci)[f][r], Scale(e0_of(ham, ci)[f][r], ci[f][r]))]]

\* Kc - c * (c.dot (Kc)) of ci_response_offdiag
OffdiagProject_mut(Kc, c) == Kc

OffdiagProject(Kc, c) == VSub(Kc, Scale(Dot(c, Kc), c))

\* ci_response_offdiag: the Hamiltonian rotated by kappa1 and shifted by
\* h1frs_prime, kham, contracted with the reference vectors and projected
ci_response_offdiag(kham) ==
  LET Kci0 == Hci_all(ZeroH0, kham, hop.ci)
  IN  [f \in 1..nsub |-> [r \in 1..nroots |-> OffdiagProject(Kci0[f][r], hop.ci[f][r])]]

\* ci_response_diag (ci1)
ci_response_diag(ci1) ==
  LET mE == [f \in 1..nsub |-> [r \in 1..nroots |-> 0 - hop.e0[f][r]]]
      Hc == Hci_all(mE, hop.ham, ci1)
  IN  [f \in 1..nsub |-> [r \in 1..nroots |->
         LET ci1HmEci0 == Dot(ci1[f][r], hop.hci0[f][r])
             s01       == Dot(ci1[f][r], hop.ci[f][r])
             a         == VSub(Hc[f][r], Scale(ci1HmEci0, hop.ci[f][r]))
             b         == VSub(a, Scale(s01, hop.hci0[f][r]))
         IN  Scale(2, b)]]

\* the CI vectors of _matvec (x) before they are packed
matvec_ci(x, kham) ==
  LET ci1 == unpack_ci(x)
      off == ci_response_offdiag(kham)
      dia == ci_response_diag(ci1)
  IN  [f \in 1..nsub |-> [r \in 1..nroots |-> VAdd(off[f][r], dia[f][r])]]

\* the CI vectors of get_grad before they are packed
grad_ci == [f \in 1..nsub |-> [r \in 1..nroots |-> Scale(2, hop.hci0[f][r])]]

\* the CI part of ugg.pack (kappa, ci_sub)
packed_ci(ci_sub) == pack_ci(<<>>, ci_sub, LoopOrder)

\* ci1 of update_mo_ci_eri (x): c + dc divided by its norm, kept as the
\* vector c + dc and the square n2 of the divisor
update_ci(x) ==
  LET dci == unpack_ci(x)
  IN  [f \in 1..nsub |-> [r \in 1..nroots |->
         LET c1 == VAdd(hop.ci[f][r], dci[f][r])
         IN  [v |-> c1, n2 |-> Dot(c1, c1)]]]

Abs(a) == IF a < 0 THEN 0 - a ELSE a

\* Hdiag += self.ah_level_shift; Hdiag[np.abs (Hdiag)<1e-8] = 1e-8, one entry
PrecClamp_mut(d) ==
  LET sh == d + AhLevelShift
  IN  IF sh < PrecFloor THEN PrecFloor ELSE sh

PrecClamp(d) ==
  LET sh == d + AhLevelShift
  IN  IF Abs(sh) < PrecFloor THEN PrecFloor ELSE sh

\* Hdiag of get_prec after the shift and the clamp
prec_diag(Hdiag) == [i \in 1..Len(Hdiag) |-> PrecClamp(Hdiag[i])]

\* the values of an entry of Hdiag before the shift
DiagVals == (0 - MaxDiag)..MaxDiag

\* Hdiag before the shift: the shift and the clamp act on every entry by
\* itself, so that the last entry of the vector takes every value
DiagInputs ==
  {[i \in 1..nvar_tot |-> IF i = j THEN d ELSE 0] :
     j \in {nvar_tot} \cap (1..nvar_tot), d \in DiagVals}

\* the array statements of a method that bind a name to a fresh array
\* ("new"), bind it to a view of an array ("view"), or write through a name
\* ("inplace"); names that start with self. or arg. are the operator's fields
\* and the method's arguments
New(dst) == [kind |-> "new", dst |-> dst, src |-> dst]
View(dst, src) == [kind |-> "view", dst |-> dst, src |-> src]
InPlace(dst) == [kind |-> "inplace", dst |-> dst, src |-> dst]

StmtsMatvec ==
  <<New("kappa1"), New("ci1"),
    New("odm1fs"), InPlace("odm1fs"), New("ocm2"), InPlace("ocm2"),
    New("tdm1frs"), New("tcm2"), View("casdm2", "self.casdm2r"), New("tdm1rs"),
    New("dm2"), InPlace("dm2"), InPlace("tdm1frs"), InPlace("tcm2"),
    New("dm1s_mo"), InPlace("dm1s_mo"), New("veff_mo"), New("veff_c"), New("veff_s"),
    InPlace("veff_s"), New("h1frs"), InPlace("h1frs"), New("err_dm1rs"),
    InPlace("err_dm1rs"), New("err_h1rs"), InPlace("err_h1rs"), InPlace("h1frs"),
    New("edm1s"), InPlace("edm1s"), New("fock1"), InPlace("fock1"),
    View("kappa1_cas", "kappa1"), New("h1frs"), InPlace("h1frs"), New("h2"),
    InPlace("h2"), InPlace("h1frs"), New("Kci0"), New("ci2")>>

StmtsGetGrad == <<New("gorb"), New("gci")>>

StmtsGetGx == <<New("gorb"), New("idx"), InPlace("idx"), New("gx")>>

StmtsGetPrec ==
  <<New("fock"), New("num"), New("Horb_diag"), InPlace("Horb_diag"),
    View("h2", "self.eri_cas"), View("h1rs", "self.h1frs"), View("h1rs", "h1rs"),
    New("hdiag_csf_list"), New("Hdiag"), InPlace("Hdiag")>>

StmtsUpdate_mut ==
  <<New("kappa"), New("dci"), New("umat"), New("mo1"),
    View("c", "self.ci"), InPlace("c"), New("norm_ci"), New("ci1"),
    View("ucas", "umat"), View("bmPu", "arg.h2eff_sub.bmPu"),
    View("h2eff_sub", "arg.h2eff_sub"), New("h2eff_sub"), View("h2eff_sub", "h2eff_sub"),
    New("h2eff_sub"), New("bmPu")>>

StmtsUpdate ==
  <<New("kappa"), New("dci"), New("umat"), New("mo1"),
    View("c", "self.ci"), New("ci1"), New("norm_ci"), New("ci1"),
    View("ucas", "umat"), View("bmPu", "arg.h2eff_sub.bmPu"),
    View("h2eff_sub", "arg.h2eff_sub"), New("h2eff_sub"), View("h2eff_sub", "h2eff_sub"),
    New("h2eff_sub"), New("bmPu")>>

\* the array a name stands for: a field, an argument, or "fresh"
BaseOf(alias, n) == IF n \in DOMAIN alias THEN alias[n] ELSE n

\* the fields and arguments written by the statements
RECURSIVE Written(_, _)
Written(stmts, alias) ==
  IF stmts = <<>> THEN {}
  ELSE LET st == Head(stmts)
       IN  CASE st.kind = "new" ->
                  Written(Tail(stmts), (st.dst :> "fresh") @@ alias)
             [] st.kind = "view" ->
                  Written(Tail(stmts), (st.dst :> BaseOf(alias, st.src)) @@ alias)
             [] OTHER ->
                  (IF BaseOf(alias, st.dst) = "fresh" THEN {} ELSE {BaseOf(alias, st.dst)})
                  \cup Written(Tail(stmts), alias)

\* x with a CI part only: the zero vector and the signed multiples of the
\* unit vectors of the CI coordinates
CiOnly ==
  {Zeros(nvar_tot)} \cup
  {[i \in 1..nvar_tot |-> IF i = j THEN sg * v ELSE 0] :
     j \in (nvar_orb + 1)..nvar_tot, v \in NZ, sg \in {0 - 1, 1}}

ZeroHam == [f \in 1..nsub |-> [r \in 1..nroots |-> ZeroSym(ndet_sub[f])]]

\* the arguments of _matvec: x and the Hamiltonian of ci_response_offdiag,
\* which depends on the orbital part of x alone; _matvec is linear in x
MatvecInputs ==
  {[x |-> x, kham |-> ZeroHam] : x \in CiOnly}
  \cup {[x |-> Zeros(nvar_tot), kham |-> k] : k \in HamChoices}

\* a las object of subspaces of one orbital each, without core or external
\* orbitals, frozen orbitals or symmetry, at least one CSF in every subspace
\* and root, and its ugg
InitHop ==
  /\ \E c \in {p \in Partitions :
                p.nc = 0 /\ p.nx = 0 /\ \A f \in 1..Len(p.cas) : p.cas[f] = 1} :
       /\ ncore = c.nc
       /\ ncas_sub = c.cas
       /\ nmo = c.nc + SumSeq(c.cas) + c.nx
  /\ InitCi
  /\ \A f \in 1..nsub : \A r \in 1..nroots : ncsf_sub[f][r] >= 1
  /\ ugg = "built"
  /\ uniq_orb_idx = init_orb
  /\ symm_forbid = {}
  /\ op = "none"
  /\ kappa_in = ZeroMat(nmo)
  /\ ci_in = <<>>
  /\ x_out = <<>>
  /\ x_in = <<>>
  /\ kappa_out = ZeroMat(nmo)
  /\ ci_out = <<>>
  /\ err = "none"
  /\ gx_idx = {}
  /\ norm_gorb = 0
  /\ norm_gci = 0
  /\ norm_gx = 0
  /\ KernelIdle
  /\ hop = NoHop
  /\ ObjectsIdle

\* kernel builds an operator in every macro iteration and calls get_grad on
\* it before any other method; update_mo_ci_eri is the last call made on it
CallableAfter == {"new", "get_grad"}

NoAlias == [n \in {} |-> "fresh"]

\* the operator after a call op that wrote the fields and arguments in w
Called(name, out, w) ==
  [hop EXCEPT !.op = name, !.out = out, !.touched = hop.touched \cup w]

\* LASCI_HessianOperator (las, ugg, ...): __init__ with the reference vectors
\* ci and the Hamiltonians ham
HopNew ==
  /\ hop.op = "none"
  /\ \E ham \in HamChoices : \E ci \in RefChoices :
       hop' = [op |-> "new", ham |-> ham, ci |-> ci, ci_ref |-> ci,
               hci0 |-> hci0_of(ham, ci), e0 |-> e0_of(ham, ci),
               out |-> <<>>, touched |-> {}]
  /\ UNCHANGED <<ovars, lasvars, uggvars, opvars, normvars, kvars>>

\* H_op._matvec (x)
HopMatvec ==
  /\ hop.op \in CallableAfter
  /\ LET w == Written(StmtsMatvec, NoAlias)
     IN  \E a \in MatvecInputs :
           hop' = Called("matvec", packed_ci(matvec_ci(a.x, a.kham)), w)
  /\ UNCHANGED <<ovars, lasvars, uggvars, opvars, normvars, kvars>>

\* H_op.get_grad ()
HopGetGrad ==
  /\ hop.op \in CallableAfter
  /\ hop' = Called("get_grad", packed_ci(grad_ci), Written(StmtsGetGrad, NoAlias))
  /\ UNCHANGED <<ovars, lasvars, uggvars, opvars, normvars, kvars>>

\* H_op.get_gx ()
HopGetGx ==
  /\ hop.op \in CallableAfter
  /\ hop' = Called("get_gx", get_gx_idx, Written(StmtsGetGx, NoAlias))
  /\ UNCHANGED <<ovars, lasvars, uggvars, opvars, normvars, kvars>>

\* H_op.get_prec ()
HopGetPrec ==
  /\ hop.op \in CallableAfter
  /\ LET w == Written(StmtsGetPrec, NoAlias)
     IN  \E Hdiag \in DiagInputs :
           hop' = Called("get_prec", [Hdiag |-> Hdiag, prec |-> prec_diag(Hdiag)], w)
  /\ UNCHANGED <<ovars, lasvars, uggvars, opvars, normvars, kvars>>

\* H_op.update_mo_ci_eri (x, h2eff_sub); a statement that writes through a
\* view of self.ci leaves c + dc in it
HopUpdate ==
  /\ hop.op \in CallableAfter
  /\ LET w == Written(StmtsUpdate, NoAlias)
     IN  \E x \in CiOnly :
           LET ci1 == update_ci(x)
           IN  hop' = [Called("update", ci1, w) EXCEPT
                         !.ci = IF "self.ci" \in w
                                THEN [f \in 1..nsub |-> [r \in 1..nroots |-> ci1[f][r].v]]
                                ELSE hop.ci]
  /\ UNCHANGED <<ovars, lasvars, uggvars, opvars, normvars, kvars>>

NextHop ==
  \/ HopNew
  \/ HopMatvec
  \/ HopGetGrad
  \/ HopGetGx
  \/ HopGetPrec
  \/ HopUpdate

SpecHop == InitHop /\ [][NextHop]_vars

(* ------------------------ LASCINoSymm, LASCISymm ---------------------- *)
\* an entry of nelecas: an integer n, or a pair (n_alpha, n_beta)
IntNel(n) == [int |-> TRUE, n |-> n]

PairNel(a, b) == [int |-> FALSE, na |-> a, nb |-> b]

\* the entries that fit a subspace of n orbitals: at most n electrons of
\* either spin
NelEntries(n) ==
  {IntNel(k) : k \in 0..(2 * n)}
  \cup {PairNel(ab[1], ab[2]) : ab \in (0..n) \X (0..n)}

NelLists == {nel \in [1..nsub -> UNION {NelEntries(ncas_sub[f]) : f \in 1..nsub}] :
               \A f \in 1..nsub : nel[f] \in NelEntries(ncas_sub[f])}

\* the loop of __init__ over nelecas: nb = nel // 2, na = nb + (nel % 2) for
\* an integer, na, nb = nel for a pair
SplitNel(e) ==
  IF e.int THEN [na |-> (e.n \div 2) + (e.n % 2), nb |-> e.n \div 2]
  ELSE [na |-> e.na, nb |-> e.nb]

\* the exception of the loop that builds the CI solvers, s.spin = nel[0] -
\* nel[1] for nel in np.asarray (nelecas): a list of integers becomes an
\* array of rank 1, whose entries cannot be indexed; a list of pairs becomes
\* an array of rank 2; of a mixed list numpy makes an array of objects or,
\* in later versions, raises ValueError
solver_err(nelecas, ragged) ==
  LET ints  == {f \in 1..Len(nelecas) : nelecas[f].int}
  IN  IF ints = {} THEN "none"
      ELSE IF ints = 1..Len(nelecas) THEN "IndexError"
      ELSE IF ragged = "raise" THEN "ValueError"
      ELSE "TypeError"

\* wfnsym_sub=None
NoWfnsym == [is_none |-> TRUE, irs |-> <<>>]

\* LASCINoSymm.__init__ (mf, ncas, nelecas): the object, or the exception
las_init(ncas_arg, nelecas, ragged) ==
  LET e  == solver_err(nelecas, ragged)
      sp == [f \in 1..Len(nelecas) |-> SplitNel(nelecas[f])]
  IN  [op |-> "new", nelecas_arg |-> nelecas, err |-> e,
       ncas |-> SumSeq(ncas_arg),
       nelecas |-> <<SumSeq([f \in 1..Len(sp) |-> sp[f].na]),
                     SumSeq([f \in 1..Len(sp) |-> sp[f].nb])>>,
       spin |-> IF e = "none" THEN [f \in 1..Len(nelecas) |-> nelecas[f].na - nelecas[f].nb]
                ELSE <<>>,
       wfnsym_arg |-> NoWfnsym, wfnsym_sub |-> <<>>, out |-> 0]

\* irrep ids of a subspace wave function
WfnsymIds == 0..3

\* wfnsym = 0; for ir in self.wfnsym_sub: wfnsym ^= ir
RECURSIVE XorFold_mut(_, _)
XorFold_mut(acc, irs) ==
  IF irs = <<>> THEN acc ELSE XorFold_mut(Head(irs), Tail(irs))

RECURSIVE XorFold(_, _)
XorFold(acc, irs) ==
  IF irs = <<>> THEN acc ELSE XorFold(Xor(acc, Head(irs)), Tail(irs))

\* LASCINoSymm (mf, ncas, nelecas)
LASCINoSymm_new ==
  /\ ObjectsIdle
  /\ ~symm
  /\ \E nelecas \in NelLists : \E ragged \in {"raise", "objects"} :
       obj' = las_init(ncas_sub, nelecas, ragged)
  /\ UNCHANGED <<lasvars, uggvars, opvars, normvars, kvars, hvars, wfn, can>>

\* LASCISymm (mf, ncas, nelecas, wfnsym_sub=wfnsym_sub): LASCINoSymm.__init__
\* and then self.wfnsym_sub, a list of zeros when the argument is None
LASCISymm_new ==
  /\ ObjectsIdle
  /\ symm
  /\ \E nelecas \in {[f \in 1..nsub |-> PairNel(1, 1)], [f \in 1..nsub |-> IntNel(2)]} :
     \E w \in {NoWfnsym} \cup {[is_none |-> FALSE, irs |-> v] : v \in [1..nsub -> WfnsymIds]} :
       LET o == las_init(ncas_sub, nelecas, "raise")
       IN  obj' = IF o.err # "none" THEN o
                  ELSE [o EXCEPT !.wfnsym_arg = w,
                                 !.wfnsym_sub = IF w.is_none THEN [f \in 1..nsub |-> 0]
                                                ELSE w.irs]
  /\ UNCHANGED <<lasvars, uggvars, opvars, normvars, kvars, hvars, wfn, can>>

\* an object that was constructed
Constructed == obj.op # "none" /\ obj.err \in {"none", "RuntimeError"}

\* las.wfnsym, read
WfnsymGet ==
  /\ Constructed
  /\ symm
  /\ obj' = [obj EXCEPT !.op = "get_wfnsym", !.err = "none",
                        !.out = XorFold(0, obj.wfnsym_sub)]
  /\ UNCHANGED <<lasvars, uggvars, opvars, normvars, kvars, hvars, wfn, can>>

\* las.wfnsym = ir
WfnsymSet ==
  /\ Constructed
  /\ symm
  /\ \E ir \in WfnsymIds :
       obj' = [obj EXCEPT !.op = "set_wfnsym", !.err = "RuntimeError", !.out = ir]
  /\ UNCHANGED <<lasvars, uggvars, opvars, normvars, kvars, hvars, wfn, can>>

(* ---------------------- Gradients.get_wfn_response -------------------- *)
\* gci_state -= gci_sa * gci_state with gci_sa = np.dot (ci_arr[state],
\* gci_state)
SelfRotationOut(c, gci_state) == VSub(gci_state, Scale(Dot(c, gci_state), gci_state))

\* g_all of get_wfn_response: the orbital part of g_all_state, then one CI
\* block per root, zero but for the block of state (roots count from 0)
wfn_response(a) ==
  LET gorb == SubSeq(a.g_all_state, 1, a.ngorb)
      gci  == SubSeq(a.g_all_state, a.ngorb + 1, Len(a.g_all_state))
      ndet == Len(a.ci[a.state + 1])
  IN  gorb \o Flatten([r \in 1..a.nroots |->
                IF r = a.state + 1 THEN SelfRotationOut(a.ci[r], gci) ELSE Zeros(ndet)])

\* the arguments of get_wfn_response: a unit CI vector per root, the index
\* of the state, and the gradient of gen_g_hop for that state
WfnInputs ==
  LET all == UNION {{[ngorb |-> ng, nroots |-> nr, state |-> st,
                      ci |-> [r \in 1..nr |-> IF r = st + 1 THEN c
                                              ELSE [i \in 1..nd |-> IF i = 1 THEN 1 ELSE 0]],
                      g_all_state |-> [i \in 1..ng |-> 1] \o g] :
                       ng \in 0..1, nr \in 1..2, st \in 0..1,
                       c \in UnitRefs(nd, nd), g \in [1..nd -> (0 - MaxVal)..MaxVal]} :
                    nd \in 1..MaxDet}
  IN  {a \in all : a.state < a.nroots}

\* Gradients.get_wfn_response (state=state, mo=mo, ci=ci, veff1=veff1,
\* veff2=veff2)
GetWfnResponse ==
  /\ ObjectsIdle
  /\ \E a \in WfnInputs : wfn' = [op |-> "get_wfn_response", arg |-> a, out |-> wfn_response(a)]
  /\ UNCHANGED <<lasvars, uggvars, opvars, normvars, kvars, hvars, obj, can>>

(* ----------------------------- canonicalize --------------------------- *)
Perms(n) == {p \in [1..n -> 1..n] : {p[i] : i \in 1..n} = 1..n}

\* np.argsort (keys): an order of the positions by ascending key, the order
\* of equal keys being at the choice of the sort
Argsort(keys) ==
  {p \in Perms(Len(keys)) :
     \A i \in 1..(Len(keys) - 1) : keys[p[i]] <= keys[p[i + 1]]}

\* idx[::-1]
Reversed_mut(p) == p

Reversed(p) == [i \in 1..Len(p) |-> p[Len(p) + 1 - i]]

\* the keys that _eig returns for the orbitals lo..hi-1: eigenvalues of the
\* Fock block, or occupations of a subspace
KeysOf(val, lo, hi) == [i \in 1..(hi - lo) |-> val[lo + i - 1]]

\* the column orders canonicalize can give umat: by ascending eigenvalue in
\* the core and in the external block, by np.argsort (occ)[::-1] in every
\* subspace; column k of umat holds the eigenvector src[k] of its block
ColumnOrders(val) ==
  LET core == Argsort(KeysOf(val, 0, ncore))
      sub  == [f \in 1..nsub |->
                 {Reversed(p) : p \in Argsort(KeysOf(val, sub_slice[f], sub_slice[f + 1]))}]
      ext  == Argsort(KeysOf(val, nocc, nmo))
      subs == {q \in [1..nsub -> UNION {sub[f] : f \in 1..nsub}] :
                 \A f \in 1..nsub : q[f] \in sub[f]}
  IN  {[k \in Orbs(nmo) |->
          IF k < ncore THEN idc[k + 1] - 1
          ELSE IF k >= nocc THEN nocc + idx[k - nocc + 1] - 1
          ELSE sub_slice[BlockOf(k)] + ids[BlockOf(k)][k - sub_slice[BlockOf(k)] + 1] - 1] :
         idc \in core, ids \in subs, idx \in ext}

\* the entries of umat that canonicalize assigns: umat[:ncore,:ncore],
\* umat[i:j,i:j] of every subspace, umat[nocc:,nocc:]
umat_assigned ==
  Block(0, ncore, 0, ncore)
  \cup UNION {Block(sub_slice[f], sub_slice[f + 1], sub_slice[f], sub_slice[f + 1]) :
                f \in 1..nsub}
  \cup Block(nocc, nmo, nocc, nmo)

\* mo_occ: 2 in the core, the occupation of the eigenvector in the column of
\* an active orbital, 0 elsewhere
mo_occ_of(val, src) ==
  [k \in Orbs(nmo) |-> IF k < ncore THEN 2 ELSE IF k < nocc THEN val[src[k]] ELSE 0]

\* las.canonicalize (mo_coeff, ci, veff, h2eff_sub), val holding the
\* eigenvalue or occupation of every eigenvector that _eig returns
Canonicalize ==
  /\ ObjectsIdle
  /\ \E val \in [Orbs(nmo) -> 0..MaxVal] : \E src \in ColumnOrders(val) :
       can' = [op |-> "canonicalize", val |-> val, src |-> src,
               umat |-> umat_assigned, mo_occ |-> mo_occ_of(val, src)]
  /\ UNCHANGED <<lasvars, uggvars, opvars, normvars, kvars, hvars, obj, wfn>>

\* a las configuration without frozen orbitals, with or without point-group
\* symmetry
InitObjects ==
  /\ \E c \in Partitions :
       /\ ncore = c.nc
       /\ ncas_sub = c.cas
       /\ nmo = c.nc + SumSeq(c.cas) + c.nx
  /\ frozen = NoFrozen
  /\ symm \in BOOLEAN
  /\ orbsym = [o \in Orbs(nmo) |-> 0]
  /\ nroots = 1
  /\ ndet_sub = [f \in 1..Len(ncas_sub) |-> 1]
  /\ ncsf_sub = [f \in 1..Len(ncas_sub) |-> <<1>>]
  /\ ugg = "none"
  /\ uniq_orb_idx = {}
  /\ symm_forbid = {}
  /\ op = "none"
  /\ kappa_in = ZeroMat(nmo)
  /\ ci_in = <<>>
  /\ x_out = <<>>
  /\ x_in = <<>>
  /\ kappa_out = ZeroMat(nmo)
  /\ ci_out = <<>>
  /\ err = "none"
  /\ gx_idx = {}
  /\ norm_gorb = 0
  /\ norm_gci = 0
  /\ norm_gx = 0
  /\ KernelIdle
  /\ hop = NoHop
  /\ ObjectsIdle

NextObjects ==
  \/ LASCINoSymm_new
  \/ LASCISymm_new
  \/ WfnsymGet
  \/ WfnsymSet
  \/ GetWfnResponse
  \/ Canonicalize

SpecObjects == InitObjects /\ [][NextObjects]_vars

(* ------------------- properties of the parameter manifold ------------- *)
\* the partition block of orbital p: 0 is core, f is active subspace f,
\* nsub + 1 is external
OrbBlock(p) ==
  IF p < ncore THEN 0
  ELSE IF p >= nocc THEN nsub + 1
  ELSE CHOOSE f \in 1..nsub :
         /\ ncore + SumSeq(SubSeq(ncas_sub, 1, f - 1)) <= p
         /\ p < ncore + SumSeq(SubSeq(ncas_sub, 1, f))

IsFrozen(p) == ~frozen.is_none /\ p \in frozen.orbs

\* position of pq in the flattened (C order) matrix
FlatIndex(pq) == (pq[1] * nmo) + pq[2]

\* 1-based rank of pq among the pairs of the free mask, by flat index
FreeRank(pq) == 1 + Cardinality({rs \in uniq_orb_idx : FlatIndex(rs) < FlatIndex(pq)})

Transposed(pq) == <<pq[2], pq[1]>>

\* kappa_in vanishes outside the free mask and its transpose
KappaInMask ==
  \A pq \in Pairs(nmo) :
    kappa_in[pq] # 0 => (pq \in uniq_orb_idx \/ Transposed(pq) \in uniq_orb_idx)

\* every CI vector given to pack lies in the span of the CSFs of its transformer
CiInCsfSpan ==
  \A f \in 1..nsub : \A r \in 1..nroots : \A k \in 1..ndet_sub[f] :
    k > ncsf_sub[f][r] => ci_in[f][r][k] = 0

\* C1 as claimed: unpack (pack (kappa, ci)) returns kappa and ci, for every
\* skew-symmetric kappa restricted to the free mask and every CI vector
C1_RoundTripAnyCi ==
  (op = "unpack_pack" /\ KappaInMask) =>
    (err = "none" /\ kappa_out = kappa_in /\ ci_out = ci_in)

\* C1 amended: unpack (pack (kappa, ci)) returns kappa and ci, for every
\* skew-symmetric kappa restricted to the free mask and every CI vector that
\* lies in the span of the CSFs
C1_RoundTripCsfSpan ==
  (op = "unpack_pack" /\ KappaInMask /\ CiInCsfSpan) =>
    (err = "none" /\ kappa_out = kappa_in /\ ci_out = ci_in)

C1_Witness ==
  /\ op = "unpack_pack"
  /\ KappaInMask
  /\ CiInCsfSpan
  /\ kappa_in # ZeroMat(nmo)
  /\ ~frozen.is_none
  /\ nvar_orb >= 2

\* C2: the free mask holds no core-core pair, no external-external pair, no
\* pair of one subspace and no pair with a frozen row or column, and the
\* first nvar_orb entries of a packed vector are entries of kappa at pairs of
\* the mask
C2_MaskExcludes ==
  /\ ugg = "built" =>
       \A pq \in uniq_orb_idx :
         /\ OrbBlock(pq[1]) # OrbBlock(pq[2])
         /\ ~IsFrozen(pq[1])
         /\ ~IsFrozen(pq[2])
  /\ (op = "pack" /\ err = "none") =>
       \A k \in 1..nvar_orb :
         \E pq \in uniq_orb_idx :
           /\ FreeRank(pq) = k
           /\ x_out[k] = kappa_in[pq]
           /\ OrbBlock(pq[1]) # OrbBlock(pq[2])
           /\ ~IsFrozen(pq[1])
           /\ ~IsFrozen(pq[2])

C2_Witness ==
  /\ op = "pack"
  /\ ~frozen.is_none
  /\ frozen.orbs # {}
  /\ \E f \in 1..nsub : ncas_sub[f] >= 2
  /\ \E k \in 1..nvar_orb : x_out[k] # 0

\* the active-core and external-active blocks
GxBlocks ==
  {pq \in Pairs(nmo) :
     \/ (OrbBlock(pq[1]) \in 1..nsub /\ OrbBlock(pq[2]) = 0)
     \/ (OrbBlock(pq[1]) = nsub + 1 /\ OrbBlock(pq[2]) \in 1..nsub)}

\* C3 as claimed: with or without symmetry labels, get_gx returns as many
\* entries as there are pairs of the active-core and external-active blocks
\* that the free mask excludes
C3_GxSizeAnySymmetry ==
  op = "get_gx" =>
    Cardinality(gx_idx) = Cardinality({pq \in GxBlocks : pq \notin uniq_orb_idx})

\* C3 amended: get_gx returns as many entries as there are pairs of the
\* active-core and external-active blocks that the free mask excludes and, in
\* a run with symmetry labels, that join orbitals of the same irrep
C3_GxSize ==
  op = "get_gx" =>
    Cardinality(gx_idx) =
      Cardinality({pq \in GxBlocks :
                     /\ pq \notin uniq_orb_idx
                     /\ (symm => orbsym[pq[1]] = orbsym[pq[2]])})

C3_Witness ==
  /\ op = "get_gx"
  /\ symm
  /\ ~frozen.is_none
  /\ frozen.orbs # {}
  /\ gx_idx # {}
  /\ gx_idx # GxBlocks

\* C6: for x of length nvar_tot, unpack returns a skew-symmetric kappa that
\* holds the first nvar_orb entries of x at the pairs of the free mask, in C
\* order, and zero outside the mask and its transpose
C6_UnpackKappa ==
  (op = "unpack" /\ Len(x_in) = nvar_tot) =>
    /\ err = "none"
    /\ \A pq \in Pairs(nmo) : kappa_out[pq] = 0 - kappa_out[Transposed(pq)]
    /\ \A p \in Orbs(nmo) : kappa_out[<<p, p>>] = 0
    /\ \A pq \in uniq_orb_idx : kappa_out[pq] = x_in[FreeRank(pq)]
    /\ \A pq \in Pairs(nmo) :
         (pq \notin uniq_orb_idx /\ Transposed(pq) \notin uniq_orb_idx) => kappa_out[pq] = 0

C6_Witness ==
  /\ op = "unpack"
  /\ Len(x_in) = nvar_tot
  /\ nvar_orb >= 2
  /\ x_in[2] # 0
  /\ err = "none"

\* C7: in a symmetry-enabled run the free mask is the mask of the base class
\* restricted to the pairs of orbitals with the same irrep label, and is the
\* mask of the base class when all labels are the same
C7_SymmMask ==
  (ugg = "built" /\ symm) =>
    /\ uniq_orb_idx = {pq \in init_orb : orbsym[pq[1]] = orbsym[pq[2]]}
    /\ (\A p, q \in Orbs(nmo) : orbsym[p] = orbsym[q]) => uniq_orb_idx = init_orb

C7_Witness ==
  /\ ugg = "built"
  /\ symm
  /\ uniq_orb_idx # {}
  /\ uniq_orb_idx # init_orb

\* first position (0-based) of the block of subspace f, root r
BlockStart(f, r) ==
  nvar_orb
  + SumSeq(Flatten(SubSeq(ncsf_sub, 1, f - 1)))
  + SumSeq(SubSeq(ncsf_sub[f], 1, r - 1))

\* C8: a packed vector has length nvar_tot; its first nvar_orb entries are the
\* free entries of kappa, then follows one block of ncsf entries per subspace
\* and root, subspace by subspace and root by root; unpack reads the same
\* blocks
C8_Layout ==
  /\ (op = "pack" /\ err = "none") =>
       /\ Len(x_out) = nvar_orb + SumSeq(Flatten(ncsf_sub))
       /\ \A pq \in uniq_orb_idx : x_out[FreeRank(pq)] = kappa_in[pq]
       /\ \A f \in 1..nsub : \A r \in 1..nroots :
            SubSeq(x_out, BlockStart(f, r) + 1, BlockStart(f, r) + ncsf_sub[f][r])
              = vec_det2csf(ci_in[f][r], ncsf_sub[f][r])
  /\ (op = "unpack" /\ Len(x_in) = nvar_tot) =>
       /\ err = "none"
       /\ \A f \in 1..nsub : \A r \in 1..nroots :
            ci_out[f][r] =
              vec_csf2det(SubSeq(x_in, BlockStart(f, r) + 1, BlockStart(f, r) + ncsf_sub[f][r]),
                          ndet_sub[f])

C8_Witness ==
  /\ op = "pack"
  /\ err = "none"
  /\ nsub >= 2
  /\ nroots >= 2
  /\ ncsf_sub[1][2] >= 1
  /\ ci_in[1][2][1] # 0
  /\ ncsf_sub[2][1] >= 1

\* C9 as claimed: unpack aborts when x is shorter or longer than nvar_tot, and
\* pack returns no vector of another length than nvar_tot
C9_LengthMismatchFatal ==
  /\ (op = "unpack" /\ Len(x_in) # nvar_tot) => err # "none"
  /\ (op = "pack" /\ err = "none") => Len(x_out) = nvar_tot

\* the (subspace, root) pairs ahead of (f, r) in the loops that have CSFs
BlocksBefore(f, r) ==
  {gs \in (1..nsub) \X (1..nroots) :
     /\ (gs[1] < f \/ (gs[1] = f /\ gs[2] < r))
     /\ ncsf_sub[gs[1]][gs[2]] > 0}

\* the number of CSFs of the (subspace, root) pairs in S
RECURSIVE NcsfOver(_)
NcsfOver(S) ==
  IF S = {} THEN 0
  ELSE LET e == CHOOSE gs \in S : TRUE
       IN  ncsf_sub[e[1]][e[2]] + NcsfOver(S \ {e})

\* first position (0-based) of the block of (f, r), counting only the blocks
\* that have CSFs
StartSkippingEmpty(f, r) == nvar_orb + NcsfOver(BlocksBefore(f, r))

\* C10: a subspace and root with ncsf = 0 adds nothing to the packed vector
\* and to nvar_tot, takes nothing from the argument of unpack, whose CI vector
\* for it is zero, leaves the blocks of the others where they are without it,
\* and with no CSF at all the CI gradient norm of the driver is 0
C10_ZeroBlock ==
  /\ (op = "pack" /\ err = "none") =>
       /\ Len(x_out) = nvar_orb + NcsfOver(BlocksBefore(nsub + 1, 1))
       /\ \A f \in 1..nsub : \A r \in 1..nroots :
            ncsf_sub[f][r] > 0 =>
              \A k \in 1..ncsf_sub[f][r] :
                x_out[StartSkippingEmpty(f, r) + k] = ci_in[f][r][k]
  /\ op = "pack" => (err = "none" /\ nvar_tot = nvar_orb + NcsfOver(BlocksBefore(nsub + 1, 1)))
  /\ (op \in {"unpack", "unpack_pack"} /\ Len(x_in) = nvar_tot) =>
       /\ err = "none"
       /\ \A f \in 1..nsub : \A r \in 1..nroots :
            /\ ncsf_sub[f][r] = 0 => ci_out[f][r] = Zeros(ndet_sub[f])
            /\ \A k \in 1..ncsf_sub[f][r] :
                 ci_out[f][r][k] = x_in[StartSkippingEmpty(f, r) + k]
  /\ (op = "norms" /\ ncsf_total = 0) => norm_gci = 0

C10_Witness ==
  /\ op = "unpack_pack"
  /\ nsub >= 2
  /\ ncsf_sub[1][1] = 0
  /\ ncsf_sub[2][1] >= 1
  /\ ci_in[2][1][1] # 0

(* --------------------------- properties of kernel --------------------- *)
\* the condition of the convergence test on the norms at hand
TestHolds ==
  \/ (norm_gorb < ConvTolGrad /\ norm_gci < ConvTolGrad)
  \/ (norm_gorb + norm_gci) * 10 < norm_gx

\* C4: converged is True exactly when the condition, with strict
\* inequalities, held at a convergence test: a test at which it holds sets
\* converged and leaves the loop, a test at which it fails leaves converged
\* False and goes on, nothing else sets converged, and the returned flag is
\* converged
C4_ConvergedIffTest ==
  /\ converged => (TestHolds /\ pc \in {"wrapup", "canon", "return", "done", "error"})
  /\ pc \in {"cg", "update"} => (~TestHolds /\ ~converged)
  /\ pc = "done" => ret.converged = converged

C4_Witness ==
  /\ pc = "done"
  /\ ret.converged
  /\ norm_gorb >= ConvTolGrad
  /\ n_step >= 1

\* C5 as claimed: for every cap, a call started from ci0 or casdm0_fr whose
\* loop ends without a passed test raises nothing after the loop and returns
\* converged = False with orbitals, CI vectors and energies
C5_CapReachedReturns ==
  /\ (pc = "error" /\ init_from # "none") => kerr_at # "wrapup"
  /\ (pc = "done" /\ n_ci = max_cycle_macro /\ n_step = n_ci) =>
       (~ret.converged /\ ret.mo_coeff /\ ret.ci1 /\ ret.e_cas /\ ret.e_tot)

\* the names of the operations of iteration i that belong to the loop body
LoopOps(i) ==
  LET body == SelectSeq(trace, LAMBDA e : e[2] = i /\ e[1] \notin {"get_ugg", "canonicalize", "return"})
  IN  [k \in 1..Len(body) |-> body[k][1]]

IsPrefix(a, b) == Len(a) <= Len(b) /\ a = SubSeq(b, 1, Len(a))

\* the number of entries of the trace with the name n
Count(n) == Cardinality({k \in 1..Len(trace) : trace[k][1] = n})

\* C12: whatever info_int the inner solve returns (tolerance met, cap
\* reached, breakdown), kernel raises nothing, the next operation is
\* update_mo_ci_eri of the same iteration, and the loop goes on: every cg of
\* the trace is followed by the update, and every solve has been applied
C12_StepAfterAnyCg ==
  /\ \A k \in 1..Len(trace) :
       trace[k][1] = "cg" =>
         IF k = Len(trace) THEN pc = "update" /\ kerr = "none"
         ELSE trace[k + 1] = <<"update_mo_ci_eri", trace[k][2]>>
  /\ pc # "update" => n_step = Count("cg")
  /\ pc = "update" => n_step + 1 = Count("cg")
  /\ (pc = "ci_cycle" /\ it >= 1) => (n_step = it /\ Count("update_mo_ci_eri") = it)

C12_Witness ==
  /\ pc = "ci_cycle"
  /\ it >= 1
  /\ cg_info # 0
  /\ n_step = it

\* the positions of kernel inside the macro loop
InLoop == pc \in {"loop", "ci_cycle", "veff", "grad", "test", "cg", "update"}

\* C13 as claimed: canonicalize is never called inside the loop, and a run
\* started from ci0 or casdm0_fr has called it exactly once when it ends, by a
\* passed test or by the cap, right before the return
C13_CanonOnce ==
  /\ InLoop => n_canon = 0
  /\ pc = "done" =>
       /\ n_canon = 1
       /\ Count("canonicalize") = 1
       /\ trace[Len(trace) - 1][1] = "canonicalize"
  /\ (pc = "error" /\ init_from # "none") => n_canon = 1

\* the loop body as claimed, with the preconditioner built before the
\* gradient, and as it is in the code
BodyClaimed ==
  <<"ci_cycle", "get_veff", "get_hop", "get_prec", "get_grad", "get_gx", "test",
    "init_df", "cg", "update_mo_ci_eri", "get_veff">>

BodyAmended ==
  <<"ci_cycle", "get_veff", "get_hop", "get_grad", "get_gx", "get_prec", "test",
    "init_df", "cg", "update_mo_ci_eri", "get_veff">>

\* every iteration so far follows the body: the earlier ones to its end, and
\* the one whose test passed to the test and no further
FollowsBody(body) ==
  \A i \in 0..it :
    /\ IsPrefix(LoopOps(i), body)
    /\ i < it => LoopOps(i) = body
    /\ (i = it /\ converged) => LoopOps(i) = SubSeq(body, 1, 7)

\* C17 as claimed: CI solve, veff, Hessian operator and preconditioner,
\* gradient and gx, test; cg and the step only after a failed test
C17_OrderClaimed == FollowsBody(BodyClaimed)

\* C17 amended: CI solve, veff, Hessian operator, gradient, gx,
\* preconditioner, test; cg and the step only after a failed test, and no step
\* in the iteration whose test passes, after which the loop is left
C17_Order ==
  /\ FollowsBody(BodyAmended)
  /\ converged => (pc \notin {"cg", "update", "loop", "ci_cycle"} /\ n_step = it)

C17_Witness ==
  /\ pc = "done"
  /\ converged
  /\ it >= 1
  /\ n_step = it

\* C18: the inner solve starts only after a failed test, on the operator
\* built in this iteration, with -g_vec of this iteration, x0 the
\* preconditioner of this iteration applied to -g_vec, atol the larger of
\* conv_tol_grad and norm_gx/10, maxiter max_cycle_micro, and M the
\* preconditioner of this iteration
C18_CgArguments ==
  pc = "update" =>
    /\ ~TestHolds
    /\ cg_call.A = it
    /\ cg_call.b = [neg |-> TRUE, g |-> it]
    /\ cg_call.x0 = [M |-> it, b |-> [neg |-> TRUE, g |-> it]]
    /\ cg_call.atol10 >= 10 * ConvTolGrad
    /\ cg_call.atol10 >= norm_gx
    /\ cg_call.atol10 \in {10 * ConvTolGrad, norm_gx}
    /\ cg_call.maxiter = MaxCycleMicro
    /\ cg_call.M = it

C18_Witness ==
  /\ pc = "update"
  /\ it >= 1
  /\ norm_gx > 10 * ConvTolGrad
  /\ cg_call.atol10 = norm_gx

(* ------------------ properties of the Hessian operator ---------------- *)
\* the norm of v / sqrt (n2) is 1: the divisor is not zero (0/0 is nan)
UnitNorm(q) == q.n2 # 0 /\ Dot(q.v, q.v) = q.n2

\* C11: every CI vector returned by update_mo_ci_eri (x) has unit norm, for
\* any x, also one whose CI part cancels the current vector
C11_UnitNormAfterUpdate ==
  hop.op = "update" =>
    \A f \in 1..nsub : \A r \in 1..nroots : UnitNorm(hop.out[f][r])

\* the reference vectors in the coordinates of the packed vector
packed_ref == packed_ci(hop.ci)

\* the overlaps of the CI blocks of the packed vector y with the reference
\* vectors, one per block
BlockOverlaps(y) ==
  LET lo == LoopOrder
      sy == unpack_slices(y, lo)
      sc == unpack_slices(packed_ref, lo)
  IN  [k \in 1..Len(lo) |-> Dot(sy[k], sc[k])]

C19_PrecShiftThenClamp ==
  hop.op = "get_prec" =>
    \A i \in 1..Len(hop.out.Hdiag) :
      LET sh == hop.out.Hdiag[i] + AhLevelShift
          p  == hop.out.prec[i]
      IN  /\ Abs(p) >= PrecFloor
          /\ Abs(sh) < PrecFloor => p = PrecFloor
          /\ Abs(sh) >= PrecFloor => p = sh

\* get_prec has clamped an entry that was negative after the shift, and has
\* kept an entry at its shifted value
C19_Witness ==
  /\ hop.op = "get_prec"
  /\ \E i \in 1..Len(hop.out.Hdiag) :
       /\ hop.out.Hdiag[i] + AhLevelShift < 0
       /\ hop.out.prec[i] = PrecFloor
  /\ \E i \in 1..Len(hop.out.Hdiag) :
       hop.out.prec[i] = hop.out.Hdiag[i] + AhLevelShift

\* C20: _matvec, get_grad, get_gx, get_prec and update_mo_ci_eri leave the
\* reference state of the operator as __init__ set it, and write neither a
\* field of the operator nor an argument: update_mo_ci_eri returns new
\* objects
C20_ReferenceUnchanged ==
  hop.op \in {"matvec", "get_grad", "get_gx", "get_prec", "update"} =>
    /\ hop.touched = {}
    /\ hop.ci = hop.ci_ref
    /\ hop.hci0 = hci0_of(hop.ham, hop.ci_ref)
    /\ hop.e0 = e0_of(hop.ham, hop.ci_ref)

\* update_mo_ci_eri has returned CI vectors that differ from the reference
C20_Witness ==
  /\ hop.op = "update"
  /\ \E f \in 1..nsub : \E r \in 1..nroots :
       /\ hop.out[f][r].n2 # 0
       /\ hop.out[f][r].v # hop.ci_ref[f][r]

(* ------------------- properties of the points of kernel --------------- *)
\* C21: the veff handed to the Hessian build after a CI solve is the full
\* recomputation from the new CI vectors without density fitting; with
\* density fitting it is the previous veff plus the update for the change
\* from the stored densities to the new ones, and the full recomputation does
\* not enter it; the stored densities are then the new ones
C21_VeffAfterCiSolve ==
  pc = "grad" =>
    /\ ~pt.df => pt.veff = Veff("full", pt.mo, pt.ci, NoTag, NoTag)
    /\ pt.df => /\ pt.veff.how = "incr"
                /\ pt.veff.mo = pt.ci_in.veff.mo
                /\ pt.veff.base = pt.ci_in.veff.dens
                /\ pt.veff.dfrom = pt.ci_in.fr
                /\ pt.veff.dens = pt.ci
                /\ pt.veff # pt.veff_new
    /\ pt.sub = pt.ci

\* the second CI solve of a density-fitted run with debug output, in which
\* the full recomputation is made for the log
C21_Witness ==
  /\ pc = "grad"
  /\ it >= 1
  /\ pt.df
  /\ pt.debug
  /\ pt.veff_new = Veff("full", pt.mo, pt.ci, NoTag, NoTag)

\* C26: the inputs of every Hessian operator built in kernel belong to one
\* point: h2eff_sub is in the basis of the current mo_coeff, ci1 is the
\* result of the CI solve of this iteration and veff is the veff of the
\* densities of ci1 in mo_coeff; every CI solve receives a veff and densities
\* of the same orbitals and CI vectors
C26_OnePoint ==
  /\ pc = "test" =>
       /\ pt.hop_in.h2eff = pt.hop_in.mo
       /\ pt.hop_in.mo = n_step
       /\ pt.hop_in.ci = CiTag("ci_cycle", it)
       /\ pt.hop_in.veff.mo = pt.hop_in.mo
       /\ pt.hop_in.veff.dens = pt.hop_in.ci
  /\ pc = "veff" =>
       /\ pt.ci_in.h2eff = pt.ci_in.mo
       /\ pt.ci_in.veff.mo = pt.ci_in.mo
       /\ pt.ci_in.veff.dens = pt.ci_in.fr

\* a Hessian operator built after a step, in a density-fitted run
C26_Witness ==
  /\ pc = "test"
  /\ pt.df
  /\ pt.hop_in.mo >= 1
  /\ pt.hop_in.ci = CiTag("ci_cycle", it)

\* C27: at wrap-up the densities casdm1s_fr are the densities of the CI
\* vectors that kernel returns, on the converged exit and on the exit at the
\* cap
C27_WrapupDensities ==
  pt.wrap # <<>> => pt.wrap.fr = pt.wrap.ci

\* C28: kernel ends after at most max_cycle_macro macro iterations; a run
\* that converges in iteration k has made k CI solves and k - 1 steps and
\* reports k cycles; a run that does not converge has made max_cycle_macro
\* of each and returns the state of the last step
C28_IterationCounts ==
  pc \in {"done", "error"} =>
    /\ n_ci <= max_cycle_macro
    /\ n_step <= n_ci
    /\ converged => /\ pc = "done"
                    /\ n_ci = it + 1
                    /\ n_step = it
                    /\ ret.cycles = it + 1
    /\ ~converged => /\ pc = "done"
                     /\ n_ci = max_cycle_macro
                     /\ n_step = max_cycle_macro
                     /\ pt.ci = CiTag("update", max_cycle_macro - 1)

\* C29: with ci0 the initial veff and densities are those of ci0; with
\* casdm0_fr alone they are those of casdm0_fr and the first CI solve has no
\* guess vector; with neither the first macro iteration has a veff and
\* densities and the run goes on
C29_InitialPoint ==
  /\ (pc = "loop" /\ it = -1 /\ init_from = "ci0") =>
       /\ pt.veff.dens = CiTag("ci0", -1)
       /\ pt.fr = CiTag("ci0", -1)
  /\ (pc = "loop" /\ it = -1 /\ init_from = "casdm0_fr") =>
       /\ pt.veff.dens = CiTag("casdm0_fr", -1)
       /\ pt.fr = CiTag("casdm0_fr", -1)
  /\ (pc = "veff" /\ it = 0 /\ init_from = "casdm0_fr") => pt.ci_in.guess = NoTag
  /\ (init_from = "none" /\ max_cycle_macro >= 1) =>
       ~(pc = "error" /\ kerr_at = "ci_cycle")

(* ---------------- free and excluded orbital rotations ------------------ *)
\* the pairs p > q of orbitals of two different blocks
InterBlock == {pq \in Pairs(nmo) : pq[1] > pq[2] /\ BlockOf(pq[1]) # BlockOf(pq[2])}

\* C25: without frozen orbitals and symmetry every pair p > q of orbitals of
\* two different blocks is in exactly one of the free mask and the index set
\* of get_gx, and the free mask holds the external-core pairs and the pairs
\* of two different subspaces, and no other
C25_FreeAndGxPartition ==
  (op = "get_gx" /\ ~symm /\ (frozen.is_none \/ frozen.orbs = {})) =>
    /\ uniq_orb_idx \cap gx_idx = {}
    /\ uniq_orb_idx \cup gx_idx = InterBlock
    /\ uniq_orb_idx =
         {pq \in InterBlock :
            \/ BlockOf(pq[1]) = nsub + 1 /\ BlockOf(pq[2]) = 0
            \/ BlockOf(pq[1]) \in 1..nsub /\ BlockOf(pq[2]) \in 1..nsub}

\* get_gx on an object with core, active and external orbitals, where both
\* sets have members
C25_Witness ==
  /\ op = "get_gx"
  /\ ~symm
  /\ frozen.is_none
  /\ ncore > 0
  /\ nmo > nocc
  /\ uniq_orb_idx # {}
  /\ gx_idx # {}

(* --------------------- properties of the objects ---------------------- *)
\* C22: canonicalize rotates within the core, each subspace and the external
\* block only; afterwards the core and the external orbitals are in
\* ascending order of their block eigenvalue, the orbitals of a subspace in
\* descending order of occupation, core occupations are 2 and external
\* occupations 0
C22_CanonicalOrder ==
  can.op = "canonicalize" =>
    /\ \A pq \in can.umat : BlockOf(pq[1]) = BlockOf(pq[2])
    /\ \A k \in Orbs(nmo) : BlockOf(can.src[k]) = BlockOf(k)
    /\ \A k \in Orbs(nmo) : \A l \in Orbs(nmo) :
         (k < l /\ BlockOf(k) = BlockOf(l)) =>
           IF BlockOf(k) \in 1..nsub
           THEN can.mo_occ[k] >= can.mo_occ[l]
           ELSE can.val[can.src[k]] <= can.val[can.src[l]]
    /\ \A k \in Orbs(nmo) :
         /\ BlockOf(k) = 0 => can.mo_occ[k] = 2
         /\ BlockOf(k) = nsub + 1 => can.mo_occ[k] = 0

\* canonicalize has sorted a subspace whose eigenvectors came with ascending
\* occupations, and a core or external block of two orbitals or a second
\* subspace beside it
C22_Witness ==
  /\ can.op = "canonicalize"
  /\ \E k \in Orbs(nmo) : \E l \in Orbs(nmo) :
       /\ k < l
       /\ BlockOf(k) = BlockOf(l)
       /\ BlockOf(k) \in 1..nsub
       /\ can.val[k] < can.val[l]
       /\ can.mo_occ[k] > can.mo_occ[l]
  /\ nmo > SumSeq(ncas_sub)

\* bit b of the irrep id v
Bit(v, b) == (v \div (2 ^ b)) % 2

\* C23: reading wfnsym gives the product (bitwise XOR) of the irreps in
\* wfnsym_sub; an assignment to wfnsym raises RuntimeError and leaves
\* wfnsym_sub as it was
C23_WfnsymProduct ==
  /\ obj.op = "get_wfnsym" =>
       /\ obj.out \in 0..3
       /\ \A b \in 0..1 :
            Bit(obj.out, b) =
              Cardinality({f \in 1..Len(obj.wfnsym_sub) : Bit(obj.wfnsym_sub[f], b) = 1}) % 2
  /\ obj.op \in {"get_wfnsym", "set_wfnsym"} =>
       obj.wfnsym_sub = IF obj.wfnsym_arg.is_none THEN [f \in 1..nsub |-> 0]
                        ELSE obj.wfnsym_arg.irs
  /\ obj.op = "set_wfnsym" => obj.err = "RuntimeError"

\* wfnsym has been read after an assignment was refused, on an object whose
\* subspaces have different irreps other than the trivial one
C23_Witness ==
  /\ obj.op = "get_wfnsym"
  /\ Len(obj.wfnsym_sub) >= 2
  /\ obj.wfnsym_sub[1] # 0
  /\ obj.wfnsym_sub[2] # 0
  /\ obj.wfnsym_sub[1] # obj.wfnsym_sub[2]
  /\ obj.out # 0

\* C24: in the vector that get_wfn_response returns the CI block of the
\* selected state has zero overlap with the CI vector of that state, the CI
\* blocks of the other states are zero and the orbital block is that of the
\* raw gradient
C24_SelfRotationRemoved ==
  wfn.op = "get_wfn_response" =>
    LET a    == wfn.arg
        ndet == Len(a.ci[1])
        blk(r) == SubSeq(wfn.out, a.ngorb + ((r - 1) * ndet) + 1, a.ngorb + (r * ndet))
    IN  /\ Len(wfn.out) = a.ngorb + (a.nroots * ndet)
        /\ SubSeq(wfn.out, 1, a.ngorb) = SubSeq(a.g_all_state, 1, a.ngorb)
        /\ \A r \in 1..a.nroots : r # a.state + 1 => blk(r) = Zeros(ndet)
        /\ Dot(a.ci[a.state + 1], blk(a.state + 1)) = 0

\* C30: construction succeeds for every list whose entries are integers or
\* pairs; an integer n counts floor (n/2) beta and the rest alpha electrons;
\* the totals are the sums over the subspaces, ncas is the sum of the
\* subspace sizes and the solver of a subspace has spin n_alpha - n_beta
C30_ConstructionSucceeds ==
  obj.op = "new" =>
    LET nel == obj.nelecas_arg
        nb(f) == IF nel[f].int THEN nel[f].n \div 2 ELSE nel[f].nb
        na(f) == IF nel[f].int THEN nel[f].n - (nel[f].n \div 2) ELSE nel[f].na
    IN  /\ obj.err = "none"
        /\ obj.nelecas = <<SumSeq([f \in 1..Len(nel) |-> na(f)]),
                           SumSeq([f \in 1..Len(nel) |-> nb(f)])>>
        /\ obj.ncas = SumSeq(ncas_sub)
        /\ obj.spin = [f \in 1..Len(nel) |-> na(f) - nb(f)]

====
